---- MODULE Spec2Model ----
(***************************************************************************)
(* Model of the integer-domain signal library (src/src/lib.rs): the        *)
(* zero-padded indexed reads of AperiodicSignal, the Add operator, the      *)
(* default Signal::fold (convolution) and the three decompositions.        *)
(*                                                                         *)
(* A signal is the sequence of its samples (the field `values`); Rust's    *)
(* 0-based index i is position i + 1 of the TLA+ sequence.  Samples are    *)
(* drawn from -MaxVal..MaxVal and lengths from 0..MaxLen, so every sum,    *)
(* difference and product stays far inside i32 and no arithmetic wraps.    *)
(* src/src/signal.rs repeats the trait, the two reads, Add and fold over   *)
(* f64 samples with the same control flow; the decompositions exist only   *)
(* in the i32 file, which is the one modelled here.                        *)
(***************************************************************************)
EXTENDS Integers, Sequences, FiniteSets, TLC

\* Bounds of the model: longest input signal, longest right-hand operand
\* (second addend / kernel), largest sample magnitude.
MaxLen == 3
MaxRhs == 3
MaxVal == 1

Values == (0 - MaxVal)..MaxVal

RECURSIVE SeqsUpTo(_)
SeqsUpTo(n) ==
    IF n = 0 THEN {<<>>}
    ELSE SeqsUpTo(n - 1) \cup [1..n -> Values]

Signals == SeqsUpTo(MaxLen)
RhsSignals == SeqsUpTo(MaxRhs)

\* Indices tried by the signed read (negative, in range, past the end) and by
\* the unsigned read (usize: never negative).
I32Indices == (0 - 2)..(MaxLen + 1)
UsizeIndices == 0..(MaxLen + 1)

VARIABLES
    signal,   \* self.values of the signal the operation is applied to
    rhs,      \* values of the second operand (add, fold), <<>> otherwise
    index,    \* index passed to an indexed read, 0 otherwise
    op,       \* "new" after construction, then the operation that was applied
    outcome,  \* "none" before an operation, "ok" on return, "panic" on abort
    value,    \* sample returned by an indexed read
    output,   \* values of the signal returned by add / fold
    outputs   \* Vec<S> returned by a decomposition: a sequence of signals

vars == <<signal, rhs, index, op, outcome, value, output, outputs>>

----------------------------------------------------------------------------
(* AperiodicSignal *)

\* Signal::new stores the vector as is.
new(values) == values

\* Signal::len
len(values) == Len(values)

\* impl Index<usize>: index >= len reads as zero.
IndexUsize(values, i) ==
    IF i >= len(values) THEN 0 ELSE values[i + 1]

\* A signed read that mirrors a negative index instead of padding with zero.
IndexI32Mirrored(values, i) ==
    LET k == IF i < 0 THEN 0 - i ELSE i
    IN  IF k >= len(values) THEN 0 ELSE values[k + 1]

\* impl Index<i32>: index < 0 or index >= len reads as zero.
IndexI32(values, i) ==
    IF i < 0 \/ i >= len(values) THEN 0 ELSE values[i + 1]

\* impl Add: one output sample per index of self (for i in 0..self.len()).
add(self, other) ==
    [i \in 1..len(self) |-> IndexUsize(self, i - 1) + IndexUsize(other, i - 1)]

----------------------------------------------------------------------------
(* Signal::fold *)

\* A product that reads the signal forwards (correlation) instead of backwards.
foldTermForward(self, kernel, i, j) ==
    IndexI32(kernel, j) * IndexI32(self, i + j)

\* The term added by one pass of the inner loop: rhs[j] * self[i - j], both
\* read through the signed index.
foldTerm(self, kernel, i, j) ==
    IndexI32(kernel, j) * IndexI32(self, i - j)

\* `sum` after the first j passes of the inner loop (for j in 0..m), starting
\* from `let mut sum = 0`.
RECURSIVE foldSum(_, _, _, _)
foldSum(self, kernel, i, j) ==
    IF j = 0 THEN 0
    ELSE foldSum(self, kernel, i, j - 1) + foldTerm(self, kernel, i, j - 1)

\* A fold whose outer loop runs one index too far.
foldOneTooMany(self, kernel) ==
    LET n == len(self)
        m == len(kernel)
    IN  new([i \in 1..(n + m) |-> foldSum(self, kernel, i - 1, m)])

\* The vector pushed by the outer loop (for i in 0..(n + m - 1) as i32); the
\* range is empty when its upper end is not positive.
fold(self, kernel) ==
    LET n == len(self)
        m == len(kernel)
    IN  new([i \in 1..(n + m - 1) |-> foldSum(self, kernel, i - 1, m)])

----------------------------------------------------------------------------
(* Decompositions *)

\* vec![0; n]
zeros(n) == [j \in 1..n |-> 0]

\* An impulse decomposition that fills every slot up to i.
impulse_decomposition_filled(s) ==
    [i \in 1..len(s) |->
        new([j \in 1..len(s) |-> IF j <= i THEN IndexUsize(s, i - 1) ELSE 0])]

\* One signal per index i in 0..len: zeros with new_values[i] = signal[i].
impulse_decomposition(s) ==
    [i \in 1..len(s) |->
        new([j \in 1..len(s) |-> IF j = i THEN IndexUsize(s, i - 1) ELSE 0])]

\* A difference taken the wrong way round.
stepDiffReversed(s, i) == IndexUsize(s, i - 1) - IndexUsize(s, i)

\* let diff = signal[i] - signal[i-1]
stepDiff(s, i) == IndexUsize(s, i) - IndexUsize(s, i - 1)

\* A step that starts one sample late (for j in i+1..len).
stepValuesLate(s, i) ==
    [j \in 1..len(s) |-> IF j - 1 > i THEN stepDiff(s, i) ELSE 0]

\* new_values after the loop for j in i..signal.len(): diff from index i on.
stepValues(s, i) ==
    [j \in 1..len(s) |-> IF j - 1 >= i THEN stepDiff(s, i) ELSE 0]

\* The all-zero signal pushed first, then one step per i in 1..len (an empty
\* range when len <= 1).
step_decomposition(s) ==
    <<new(zeros(len(s)))>> \o [i \in 1..(len(s) - 1) |-> new(stepValues(s, i))]

\* Division rounding towards minus infinity.
FloorDiv(a, b) == a \div b

\* i32 `/` with a positive divisor: the quotient is truncated towards zero.
TruncDiv(a, b) ==
    IF a >= 0 THEN a \div b ELSE 0 - ((0 - a) \div b)

\* A back index that forgets the reflection.
backIndexSame(n, i) == i % n

\* let front_index = i % signal.len()
frontIndex(n, i) == i % n

\* let back_index = (signal.len() - i) % signal.len()
backIndex(n, i) == (n - i) % n

\* `even`: signal[0] pushed first, then (front + back) / 2 for i in 1..len.
evenValues(s) ==
    <<IndexI32(s, 0)>> \o
    [i \in 1..(len(s) - 1) |->
        TruncDiv(IndexUsize(s, frontIndex(len(s), i))
                   + IndexUsize(s, backIndex(len(s), i)), 2)]

\* `odd`: 0 pushed first, then (front - back) / 2 for i in 1..len.
oddValues(s) ==
    <<0>> \o
    [i \in 1..(len(s) - 1) |->
        TruncDiv(IndexUsize(s, frontIndex(len(s), i))
                   - IndexUsize(s, backIndex(len(s), i)), 2)]

\* vec![S::new(even), S::new(odd)]
even_odd_decomposition(s) == <<new(evenValues(s)), new(oddValues(s))>>

----------------------------------------------------------------------------
(* The state machine: a signal is constructed, then one operation of the   *)
(* library is applied to it.                                               *)

Init ==
    /\ signal \in {new(v) : v \in Signals}
    /\ rhs = <<>>
    /\ index = 0
    /\ op = "new"
    /\ outcome = "none"
    /\ value = 0
    /\ output = <<>>
    /\ outputs = <<>>

\* signal[i] with i: i32
ReadI32 ==
    /\ op = "new"
    /\ \E i \in I32Indices :
        /\ index' = i
        /\ value' = IndexI32(signal, i)
    /\ op' = "index_i32"
    /\ outcome' = "ok"
    /\ UNCHANGED <<signal, rhs, output, outputs>>

\* signal[i] with i: usize
ReadUsize ==
    /\ op = "new"
    /\ \E i \in UsizeIndices :
        /\ index' = i
        /\ value' = IndexUsize(signal, i)
    /\ op' = "index_usize"
    /\ outcome' = "ok"
    /\ UNCHANGED <<signal, rhs, output, outputs>>

\* signal + other
Add ==
    /\ op = "new"
    /\ \E other \in RhsSignals :
        /\ rhs' = new(other)
        /\ output' = add(signal, new(other))
    /\ op' = "add"
    /\ outcome' = "ok"
    /\ UNCHANGED <<signal, index, value, outputs>>

\* signal.fold(&kernel).  With both operands empty, n + m - 1 underflows in
\* usize: a build with overflow checks panics there, a build without them
\* wraps to usize::MAX, which `as i32` turns into -1, an empty range.
Fold ==
    /\ op = "new"
    /\ \E kernel \in RhsSignals :
        /\ rhs' = new(kernel)
        /\ \/ /\ len(signal) + len(kernel) >= 1
              /\ outcome' = "ok"
              /\ output' = fold(signal, new(kernel))
           \/ /\ len(signal) + len(kernel) = 0
              /\ \/ /\ outcome' = "panic"
                    /\ output' = <<>>
                 \/ /\ outcome' = "ok"
                    /\ output' = fold(signal, new(kernel))
    /\ op' = "fold"
    /\ UNCHANGED <<signal, index, value, outputs>>

ImpulseDecomposition ==
    /\ op = "new"
    /\ op' = "impulse_decomposition"
    /\ outcome' = "ok"
    /\ outputs' = impulse_decomposition(signal)
    /\ UNCHANGED <<signal, rhs, index, value, output>>

StepDecomposition ==
    /\ op = "new"
    /\ op' = "step_decomposition"
    /\ outcome' = "ok"
    /\ outputs' = step_decomposition(signal)
    /\ UNCHANGED <<signal, rhs, index, value, output>>

EvenOddDecomposition ==
    /\ op = "new"
    /\ op' = "even_odd_decomposition"
    /\ outcome' = "ok"
    /\ outputs' = even_odd_decomposition(signal)
    /\ UNCHANGED <<signal, rhs, index, value, output>>

Next ==
    \/ ReadI32
    \/ ReadUsize
    \/ Add
    \/ Fold
    \/ ImpulseDecomposition
    \/ StepDecomposition
    \/ EvenOddDecomposition

Spec == Init /\ [][Next]_vars

TypeOK ==
    /\ signal \in Signals
    /\ rhs \in RhsSignals
    /\ index \in I32Indices
    /\ op \in {"new", "index_i32", "index_usize", "add", "fold",
               "impulse_decomposition", "step_decomposition",
               "even_odd_decomposition"}
    /\ outcome \in {"none", "ok", "panic"}
    /\ value \in Int

----------------------------------------------------------------------------
(* Vocabulary of the properties, stated independently of the operations.   *)

\* The sample of s at integer position i under implicit zero padding.
ZeroPadded(s, i) == IF 0 <= i /\ i < Len(s) THEN s[i + 1] ELSE 0

Max(a, b) == IF a >= b THEN a ELSE b

\* The sum of f[d] over the finite set of integers D.
RECURSIVE SumOver(_, _)
SumOver(D, f) ==
    IF D = {} THEN 0
    ELSE LET d == CHOOSE x \in D : TRUE
         IN  f[d] + SumOver(D \ {d}, f)

\* The convolution sum at output index i: sum over j in 0..m-1 of k[j] * s[i-j].
ConvolutionAt(s, k, i) ==
    SumOver(0..(Len(k) - 1),
            [j \in 0..(Len(k) - 1) |-> ZeroPadded(k, j) * ZeroPadded(s, i - j)])

\* The sum over all signals of the collection of their samples at index j.
SumAt(collection, j) ==
    SumOver(1..Len(collection),
            [c \in 1..Len(collection) |-> ZeroPadded(collection[c], j)])

\* The kernel of length d + 1 that is zero except for c at index d.
DelayKernel(d, c) == [j \in 1..(d + 1) |-> IF j = d + 1 THEN c ELSE 0]

IsDelayKernel(k) ==
    /\ Len(k) >= 1
    /\ \A j \in 1..(Len(k) - 1) : k[j] = 0

\* Every reflected sum s[i] + s[(n - i) mod n], i in 1..n-1, is even.
AllReflectedSumsEven(s) ==
    \A i \in 1..(Len(s) - 1) :
        (ZeroPadded(s, i) + ZeroPadded(s, (Len(s) - i) % Len(s))) % 2 = 0

\* The quotient a / 2 truncated towards zero, by cases on sign and parity.
HalfTowardsZero(a) ==
    CHOOSE q \in (0 - 2 * MaxVal)..(2 * MaxVal) :
        \/ 2 * q = a
        \/ a > 0 /\ 2 * q = a - 1
        \/ a < 0 /\ 2 * q = a + 1

----------------------------------------------------------------------------
(* Properties *)

\* C1: an indexed read never fails; it returns values[i] when 0 <= i < len
\* and zero when i < 0 or i >= len, through the signed and the unsigned read
\* alike, and the two reads agree on every non-negative index.
C1_ReadsAreZeroPadded ==
    /\ op \in {"index_i32", "index_usize"} =>
        /\ outcome = "ok"
        /\ (0 <= index /\ index < Len(signal)) => value = signal[index + 1]
        /\ (index < 0 \/ index >= Len(signal)) => value = 0
    /\ op = "index_usize" => value = IndexI32(signal, index)
    /\ (op = "index_i32" /\ index >= 0) => value = IndexUsize(signal, index)

\* C1 witnesses: a signed read at a negative index of a non-empty signal
\* whose mirrored sample is not zero.
C1_Witness ==
    /\ op = "index_i32"
    /\ index < 0
    /\ ZeroPadded(signal, 0 - index) # 0
    /\ value = 0

\* C2 as stated: a + b has length max(len(a), len(b)) and sample a[i] + b[i]
\* at each index, the shorter operand zero-extended.
C2_AddZeroExtendsBoth ==
    op = "add" =>
        /\ outcome = "ok"
        /\ Len(output) = Max(Len(signal), Len(rhs))
        /\ \A i \in 0..(Max(Len(signal), Len(rhs)) - 1) :
              ZeroPadded(output, i) = ZeroPadded(signal, i) + ZeroPadded(rhs, i)

\* C3: for n + m >= 1, fold returns a signal of length n + m - 1 whose sample
\* at each index i is the sum over j of k[j] * s[i - j], zero-padded.
C3_FoldIsConvolution ==
    (op = "fold" /\ Len(signal) + Len(rhs) >= 1) =>
        /\ outcome = "ok"
        /\ Len(output) = Len(signal) + Len(rhs) - 1
        /\ \A i \in 0..(Len(signal) + Len(rhs) - 2) :
              output[i + 1] = ConvolutionAt(signal, rhs, i)

\* C3 witness: a fold where both operands have at least two samples and some
\* output sample sums two non-zero products.
C3_Witness ==
    /\ op = "fold"
    /\ outcome = "ok"
    /\ Len(signal) >= 2
    /\ Len(rhs) >= 2
    /\ \E i \in 1..Len(output) :
          /\ output[i] = 2
          /\ rhs[1] * ZeroPadded(signal, i - 1) = 1
          /\ rhs[2] * ZeroPadded(signal, i - 2) = 1

\* C4: folding a signal of length n >= 1 with the kernel that is c at index d
\* and zero before it gives d zeros followed by c*s[0], ..., c*s[n-1].
C4_FoldDelayScale ==
    (op = "fold" /\ Len(signal) >= 1 /\ IsDelayKernel(rhs)) =>
        LET d == Len(rhs) - 1
            c == rhs[Len(rhs)]
        IN  /\ outcome = "ok"
            /\ output = zeros(d) \o [i \in 1..Len(signal) |-> c * signal[i]]
            /\ (d = 0 /\ c = 1) => output = signal
            /\ c = 1 => SubSeq(output, d + 1, Len(output)) = signal

\* C4 witness: a non-constant signal delayed by at least one position and
\* negated by the kernel.
C4_Witness ==
    /\ op = "fold"
    /\ Len(signal) >= 2
    /\ signal[1] # signal[2]
    /\ signal[1] # 0
    /\ Len(rhs) >= 2
    /\ rhs = DelayKernel(Len(rhs) - 1, 0 - 1)
    /\ Len(output) = Len(signal) + Len(rhs) - 1

\* C5: impulse_decomposition returns n signals of length n, the i-th being
\* s[i] at position i and zero elsewhere, and their element-wise sum is s.
C5_ImpulseDecomposition ==
    op = "impulse_decomposition" =>
        /\ outcome = "ok"
        /\ Len(outputs) = Len(signal)
        /\ \A i \in 1..Len(outputs) :
              /\ Len(outputs[i]) = Len(signal)
              /\ \A j \in 1..Len(signal) :
                    outputs[i][j] = IF j = i THEN signal[i] ELSE 0
        /\ \A j \in 0..(Len(signal) - 1) : SumAt(outputs, j) = signal[j + 1]

\* C5 witness: a decomposed signal of three samples, none of them zero.
C5_Witness ==
    /\ op = "impulse_decomposition"
    /\ Len(signal) = 3
    /\ \A j \in 1..3 : signal[j] # 0
    /\ Len(outputs) = 3

\* C6: for n >= 1, step_decomposition returns n signals of length n;
\* output[0] is all zeros and output[i], i in 1..n-1, is s[i] - s[i-1] at
\* every position j >= i and zero before.
C6_StepDecomposition ==
    (op = "step_decomposition" /\ Len(signal) >= 1) =>
        /\ outcome = "ok"
        /\ Len(outputs) = Len(signal)
        /\ \A i \in 1..Len(outputs) : Len(outputs[i]) = Len(signal)
        /\ \A j \in 1..Len(signal) : outputs[1][j] = 0
        /\ \A i \in 1..(Len(signal) - 1) : \A j \in 0..(Len(signal) - 1) :
              outputs[i + 1][j + 1] =
                  IF j >= i THEN signal[i + 1] - signal[i] ELSE 0

\* C6 witness: a signal of three samples with two non-zero steps.
C6_Witness ==
    /\ op = "step_decomposition"
    /\ Len(signal) = 3
    /\ signal[2] # signal[1]
    /\ signal[3] # signal[2]
    /\ Len(outputs) = 3
    /\ outputs[2][2] # 0
    /\ outputs[3][3] # 0

\* C7 as stated: the element-wise sum of the signals returned by
\* step_decomposition equals s at every index.
C7_StepSumReconstructs ==
    op = "step_decomposition" =>
        \A j \in 0..(Len(signal) - 1) : SumAt(outputs, j) = signal[j + 1]

\* C7 amended: the element-wise sum of the signals returned by
\* step_decomposition is s[j] - s[0] at every index j, so it equals s exactly
\* when s[0] = 0.
C7_StepSumIsOffsetBySample0 ==
    op = "step_decomposition" =>
        /\ outcome = "ok"
        /\ \A j \in 0..(Len(signal) - 1) :
              SumAt(outputs, j) = signal[j + 1] - signal[1]
        /\ (\A j \in 0..(Len(signal) - 1) : SumAt(outputs, j) = signal[j + 1])
              <=> (Len(signal) = 0 \/ signal[1] = 0)

\* C7 witness: a step decomposition of a non-constant signal with s[0] # 0.
C7_Witness ==
    /\ op = "step_decomposition"
    /\ Len(signal) = 3
    /\ signal[1] # 0
    /\ signal[2] # signal[1]
    /\ signal[3] # signal[2]
    /\ SumAt(outputs, 2) # signal[3]

\* C8: for n >= 1, even_odd_decomposition returns [even, odd], each of length
\* n, with even[0] = s[0], odd[0] = 0 and, for i in 1..n-1,
\* even[i] = (s[i] + s[(n-i) mod n]) / 2 and odd[i] = (s[i] - s[(n-i) mod n]) / 2,
\* the division truncating towards zero.
C8_EvenOddTruncates ==
    (op = "even_odd_decomposition" /\ Len(signal) >= 1) =>
        LET n == Len(signal)
        IN  /\ outcome = "ok"
            /\ Len(outputs) = 2
            /\ Len(outputs[1]) = n
            /\ Len(outputs[2]) = n
            /\ outputs[1][1] = signal[1]
            /\ outputs[2][1] = 0
            /\ \A i \in 1..(n - 1) :
                  /\ outputs[1][i + 1] =
                        HalfTowardsZero(signal[i + 1] + signal[((n - i) % n) + 1])
                  /\ outputs[2][i + 1] =
                        HalfTowardsZero(signal[i + 1] - signal[((n - i) % n) + 1])

\* C8 witness: a decomposition in which a negative odd sum and a negative odd
\* difference are both halved to zero.
C8_Witness ==
    /\ op = "even_odd_decomposition"
    /\ Len(signal) >= 2
    /\ \E i \in 1..(Len(signal) - 1) :
          /\ signal[i + 1] + signal[((Len(signal) - i) % Len(signal)) + 1] = 0 - 1
          /\ outputs[1][i + 1] = 0
    /\ \E i \in 1..(Len(signal) - 1) :
          /\ signal[i + 1] - signal[((Len(signal) - i) % Len(signal)) + 1] = 0 - 1
          /\ outputs[2][i + 1] = 0

\* C9: for n >= 1, even + odd equals s at every index if and only if
\* s[i] + s[(n - i) mod n] is even for every i in 1..n-1.
C9_EvenPlusOddIffSumsEven ==
    (op = "even_odd_decomposition" /\ Len(signal) >= 1) =>
        ((add(outputs[1], outputs[2]) = signal) <=> AllReflectedSumsEven(signal))

\* C9 witnesses: a signal with an odd reflected sum, for which even + odd
\* agrees with s at one index of the reflected pair and not at the other.
C9_Witness ==
    /\ op = "even_odd_decomposition"
    /\ Len(signal) = 3
    /\ ~AllReflectedSumsEven(signal)
    /\ add(outputs[1], outputs[2])[2] = signal[2]
    /\ add(outputs[1], outputs[2])[3] # signal[3]

\* C10 as stated: step_decomposition and even_odd_decomposition of a
\* zero-length signal fail with an error and return no collection of signals.
C10_EmptyInputFails ==
    (op \in {"step_decomposition", "even_odd_decomposition"} /\ Len(signal) = 0) =>
        /\ outcome # "ok"
        /\ outputs = <<>>

====
